---- MODULE Spec2Model ----
(***************************************************************************)
(* project-map: generateProjectMap / buildFileTree / formatFileTree of     *)
(* src/src/index.ts.                                                       *)
(*                                                                         *)
(* A string is a sequence of characters, a character a one-letter TLA+     *)
(* string.  The box-drawing glyphs of the formatter are written with the   *)
(* ASCII stand-ins Vert, Tee, Corner and Dash.  A path is the sequence of  *)
(* its segments (each a string), the traversal root being <<rootName>>.    *)
(***************************************************************************)
EXTENDS Integers, Sequences, FiniteSets, TLC

VARIABLES
  options,      \* the destructured Options of generateProjectMap
  fsRootExists, \* what fs.existsSync(normalizedRootDir) answers
  pc,           \* position of generateProjectMap
  worklist,     \* buildFileTree calls still to be made, in call order
  tasks,        \* path -> the buildFileTree call made for it (its promise)
  calls,        \* the fs calls made so far: [stat, readdir, read] sets of paths
  warnings,     \* paths console.warn was called for
  rootNode,     \* the awaited result of buildFileTree(root)
  outFile,      \* [writes, text]: the writeFileSync calls on outputPath
  fs,           \* path -> what the filesystem answered (or would answer) for it
  mPattern,     \* SpecMatch: the exclude pattern the matcher is applied to
  mName,        \* SpecMatch: the base name the matcher is applied to
  mResult       \* SpecMatch: empty before the matcher ran, then its one answer

vars == <<options, fsRootExists, pc, worklist, tasks, calls, warnings,
          rootNode, outFile, fs, mPattern, mName, mResult>>

buildVars == <<options, fsRootExists, pc, worklist, tasks, calls, warnings,
               rootNode, outFile, fs>>
matchVars == <<mPattern, mName, mResult>>

-----------------------------------------------------------------------------
(* Bounds *)

\* most buildFileTree calls (filesystem entries visited) in one run
MaxNodes == 3
\* longest exclude pattern of SpecMatch
MaxPatLen == 3
\* longest base name of SpecMatch
MaxNameLen == 3
\* deepest level and widest directory of the trees of SpecFormat
MaxTreeDepth == 2
MaxChildren == 2

-----------------------------------------------------------------------------
(* Strings *)

NL == "\n"
Vert == "|"
Tee == "+"
Corner == "\\"
Dash == "-"

\* all strings over alphabet A of length lo..hi
StringsOver(A, lo, hi) == UNION {[1..n -> A] : n \in lo..hi}

\* String.prototype.includes for a single character
includes(s, c) == \E i \in 1..Len(s) : s[i] = c

\* String.prototype.startsWith for a single character
startsWith(s, c) == Len(s) >= 1 /\ s[1] = c

\* String.prototype.repeat
RECURSIVE repeat(_, _)
repeat(s, n) == IF n <= 0 THEN <<>> ELSE s \o repeat(s, n - 1)

\* String.prototype.split('\n'): the pieces between the newlines, so always
\* at least one piece, and a trailing newline yields a trailing empty piece
RECURSIVE split(_)
split(s) ==
  IF ~includes(s, NL) THEN <<s>>
  ELSE LET i == CHOOSE k \in 1..Len(s) :
                  s[k] = NL /\ \A j \in 1..(k - 1) : s[j] # NL
       IN <<SubSeq(s, 1, i - 1)>> \o split(SubSeq(s, i + 1, Len(s)))

\* template-literal conversion of a non-negative integer to decimal digits
Digit(n) == <<"0", "1", "2", "3", "4", "5", "6", "7", "8", "9">>[n + 1]
RECURSIVE numberToString(_)
numberToString(n) == IF n < 10 THEN <<Digit(n)>>
                     ELSE numberToString(n \div 10) \o <<Digit(n % 10)>>

-----------------------------------------------------------------------------
(* The exclude matcher, index.ts 85-92 *)

\* pattern.replace(/\*/g, '.*')
RECURSIVE replaceStar(_)
replaceStar(p) ==
  IF p = <<>> THEN <<>>
  ELSE (IF Head(p) = "*" THEN <<".", "*">> ELSE <<Head(p)>>)
       \o replaceStar(Tail(p))

\* one regular-expression atom against one character: '.' is any character
\* but a line terminator, any other atom here is a literal
atomMatches(a, c) == IF a = "." THEN c # NL ELSE a = c

\* new RegExp('^' + src + '$').test(s), for the regex sources replaceStar yields
\* over the alphabet of the model: literals, '.', a '*' quantifier on the
\* preceding atom, and '$', which (no m flag) asserts the end of the input
RECURSIVE regexTest(_, _)
regexTest(src, s) ==
  IF src = <<>> THEN s = <<>>
  ELSE IF Len(src) >= 2 /\ src[2] = "*"
    THEN \E k \in 0..Len(s) :
           /\ \A i \in 1..k : atomMatches(src[1], s[i])
           /\ regexTest(SubSeq(src, 3, Len(src)), SubSeq(s, k + 1, Len(s)))
  ELSE IF src[1] = "$"
    THEN s = <<>> /\ regexTest(Tail(src), s)
  ELSE s # <<>> /\ atomMatches(src[1], s[1]) /\ regexTest(Tail(src), Tail(s))

\* the callback of exclude.some
patternMatches(pattern, name) ==
  IF includes(pattern, "*")
    THEN regexTest(replaceStar(pattern), name)
    ELSE name = pattern

\* exclude.some(...)
isExcluded(exclude, name) ==
  \E i \in 1..Len(exclude) : patternMatches(exclude[i], name)

\* !showHidden && name.startsWith('.')
isHidden(showHidden, name) == ~showHidden /\ startsWith(name, ".")

-----------------------------------------------------------------------------
(* Inputs *)

\* Infinity, the default of maxDepth: no depth reaches it
Infinity == -1

\* base names of filesystem entries: plain, hidden, and one that begins
\* with the regular-expression metacharacter '$'
Names == { <<"a">>, <<".", "a">>, <<"$", "a">> }

\* base names of the traversal root
RootNames == { <<".", "a">>, <<"$", "a">> }

\* exclude lists: an exact pattern with a wildcard pattern, and "*.a"
ExcludeLists == { << <<"a">>, <<"$", "*">> >>, << <<"*", ".", "a">> >> }

\* stats.size of a file, in bytes
Sizes == {1024, 1025}

\* what readFileSync returns
Contents == { <<>>, <<"x">> }

OptionSets ==
  [ rootDir : { <<n>> : n \in RootNames },
    exclude : ExcludeLists,
    includeContent : BOOLEAN,
    maxDepth : {0, 1, Infinity},
    showHidden : BOOLEAN,
    contentSizeLimit : {1, 2} ]

\* sequences of distinct names, at most k long: what readdirSync may return
EntryLists(k) ==
  { l \in StringsOver(Names, 0, k) : \A i, j \in 1..Len(l) : i # j => l[i] # l[j] }

-----------------------------------------------------------------------------
(* FileNode, index.ts 16-23; an absent optional property is an absent field *)

Null == [type |-> "null"]

\* path.basename(currentPath)
basename(p) == p[Len(p)]

\* path.relative(basePath, currentPath)
relative(p) == Tail(p)

\* relativePath || '.'
orDot(rel) == IF rel = <<>> THEN << <<".">> >> ELSE rel

\* the directory node of index.ts 106-111 and 114-119
directoryNode(p, children) ==
  [type |-> "directory", name |-> basename(p), path |-> orDot(relative(p)),
   children |-> children]

\* Math.ceil(stats.size / 1024)
sizeKB(bytes) == (bytes + 1023) \div 1024

\* the file node of index.ts 143-148, content not set
fileNode(p, bytes) ==
  [type |-> "file", name |-> basename(p), path |-> relative(p),
   size |-> sizeKB(bytes)]

\* the file node after fileNode.content = ... of index.ts 152
fileNodeWithContent(p, bytes, text) ==
  [type |-> "file", name |-> basename(p), path |-> relative(p),
   size |-> sizeKB(bytes), content |-> text]

hasContent(node) == "content" \in DOMAIN node
hasSize(node) == "size" \in DOMAIN node
hasChildren(node) == "children" \in DOMAIN node

\* an off-by-one depth test: > for >=
depthReachedStrict(currentDepth, maxDepth) ==
  maxDepth # Infinity /\ currentDepth > maxDepth

\* currentDepth >= maxDepth
depthReached(currentDepth, maxDepth) ==
  maxDepth # Infinity /\ currentDepth >= maxDepth

\* an off-by-one size test: < for <=
contentEligibleStrict(includeContent, bytes, contentSizeLimit) ==
  includeContent /\ bytes < contentSizeLimit * 1024

\* includeContent && stats.size <= contentSizeLimit * 1024
contentEligible(includeContent, bytes, contentSizeLimit) ==
  includeContent /\ bytes <= contentSizeLimit * 1024

\* validChildren.filter(node => node !== null)
nonNull(values) == SelectSeq(values, LAMBDA v : v # Null)

-----------------------------------------------------------------------------
(* formatFileTree, index.ts 168-192 *)

SeparatorWidth == 40

\* if (node.content): the property is set and is not the empty string
contentTruthy(node) == hasContent(node) /\ node.content # <<>>

\* level > 0 ? '|  '.repeat(level - 1) + (isLast ? '\- ' : '+- ') : ''
indentOf(level, isLast) ==
  IF level > 0
    THEN repeat(<<Vert, " ", " ">>, level - 1)
         \o (IF isLast THEN <<Corner, Dash, " ">> ELSE <<Tee, Dash, " ">>)
    ELSE <<>>

\* '|  '.repeat(level) + '   '
contentIndentOf(level) == repeat(<<Vert, " ", " ">>, level) \o <<" ", " ", " ">>

\* contentLines.forEach(line => result += contentIndent + line + '\n')
RECURSIVE indentLines(_, _)
indentLines(lines, contentIndent) ==
  IF lines = <<>> THEN <<>>
  ELSE contentIndent \o Head(lines) \o <<NL>>
       \o indentLines(Tail(lines), contentIndent)

\* the content block of index.ts 174-182
contentBlock(node, level) ==
  IF contentTruthy(node)
    THEN LET contentIndent == contentIndentOf(level)
             separator == contentIndent \o repeat(<<Dash>>, SeparatorWidth) \o <<NL>>
         IN separator \o indentLines(split(node.content), contentIndent) \o separator
    ELSE <<>>

\* the node's own line of index.ts 172
nodeLine(node, level, isLast) ==
  indentOf(level, isLast) \o node.name
  \o (IF node.type = "file"
        THEN <<" ", "(">> \o numberToString(node.size) \o <<"K", "B", ")">>
        ELSE <<>>)
  \o <<NL>>

RECURSIVE formatFileTree(_, _, _)
RECURSIVE formatChildren(_, _, _)

\* node.children.forEach((child, index) => ...), from child i on
formatChildren(children, i, level) ==
  IF i > Len(children) THEN <<>>
  ELSE formatFileTree(children[i], level + 1, i = Len(children))
       \o formatChildren(children, i + 1, level)

formatFileTree(node, level, isLast) ==
  IF node = Null THEN <<>>
  ELSE nodeLine(node, level, isLast)
       \o contentBlock(node, level)
       \o (IF hasChildren(node) /\ Len(node.children) > 0
             THEN formatChildren(node.children, 1, level)
             ELSE <<>>)

-----------------------------------------------------------------------------
(* generateProjectMap and buildFileTree as a state machine.                *)
(*                                                                         *)
(* buildFileTree is async but awaits only Promise.all, so the part of a    *)
(* call up to that await (the exclude and hidden tests, statSync,          *)
(* readdirSync, readFileSync) runs synchronously inside entries.map of its *)
(* parent: the calls happen in depth-first order, each one atomically, and *)
(* promises are settled only once the last call has been made.  The order  *)
(* in which settled child promises are delivered to Promise.all is left    *)
(* open.  The filesystem is revealed as it is queried: each answer is      *)
(* drawn when the call is made, and no path is queried twice.              *)
(***************************************************************************)

\* the filesystem's answer for a path that is not queried (skipped entries)
NoFs == [kind |-> "unknown", size |-> 0, readable |-> FALSE, text |-> <<>>,
         listable |-> FALSE, entries |-> <<>>]

\* a buildFileTree call: its depth, its promise and the Promise.all it awaits
\* (values: the result array; arrivals: the indices delivered so far, in order)
Task(depth, state, value, entries) ==
  [depth |-> depth, state |-> state, value |-> value, entries |-> entries,
   values |-> [i \in 1..Len(entries) |-> Null], arrivals |-> <<>>]

\* entries created so far, made or pending
nodeCount == Cardinality(DOMAIN tasks) + Len(worklist)

\* entries.map(entry => buildFileTree(..., path.join(currentPath, entry), ...,
\* currentDepth + 1)): the calls to make, in order
childCalls(p, depth, entries) ==
  [i \in 1..Len(entries) |-> [path |-> Append(p, entries[i]), depth |-> depth + 1]]

\* the existence check left out
rootMissingNeverChecked(exists) == FALSE

\* !fs.existsSync(normalizedRootDir)
rootMissing(exists) == ~exists

Init ==
  /\ options \in OptionSets
  /\ fsRootExists \in BOOLEAN
  /\ pc = "start"
  /\ worklist = <<>>
  /\ tasks = <<>>
  /\ fs = <<>>
  /\ calls = [stat |-> {}, readdir |-> {}, read |-> {}]
  /\ warnings = {}
  /\ rootNode = Null
  /\ outFile = [writes |-> 0, text |-> <<>>]
  /\ mPattern = <<>> /\ mName = <<>> /\ mResult = <<>>

\* index.ts 43-46: the root does not exist, the call throws
RootNotFound ==
  /\ pc = "start"
  /\ rootMissing(fsRootExists)
  /\ pc' = "failed"
  /\ UNCHANGED <<options, fsRootExists, worklist, tasks, calls, warnings,
                 rootNode, outFile, fs, matchVars>>

\* index.ts 43-57: the root exists, buildFileTree(root, root, ...) is called
BeginBuild ==
  /\ pc = "start"
  /\ ~rootMissing(fsRootExists)
  /\ pc' = "build"
  /\ worklist' = <<[path |-> options.rootDir, depth |-> 0]>>
  /\ UNCHANGED <<options, fsRootExists, tasks, calls, warnings,
                 rootNode, outFile, fs, matchVars>>

\* the call that runs next, and the tests of index.ts 85-99 on it
calling == Head(worklist)
skipped(p) ==
  \/ isExcluded(options.exclude, basename(p))
  \/ isHidden(options.showHidden, basename(p))

\* the call returns (or throws) without awaiting: its promise is settled
returnNow(p, depth, state, value, answer) ==
  /\ tasks' = (p :> Task(depth, state, value, <<>>)) @@ tasks
  /\ fs' = (p :> answer) @@ fs
  /\ worklist' = Tail(worklist)

\* index.ts 84-99: the name is excluded or hidden, return null
CallSkipped ==
  /\ pc = "build" /\ worklist # <<>>
  /\ skipped(calling.path)
  /\ returnNow(calling.path, calling.depth, "resolved", Null, NoFs)
  /\ UNCHANGED <<options, fsRootExists, pc, calls, warnings, rootNode,
                 outFile, matchVars>>

\* index.ts 101: statSync throws (a dangling link, a vanished entry, EACCES)
CallStatThrows ==
  /\ pc = "build" /\ worklist # <<>>
  /\ ~skipped(calling.path)
  /\ calls' = [calls EXCEPT !.stat = @ \cup {calling.path}]
  /\ returnNow(calling.path, calling.depth, "rejected", Null,
               [NoFs EXCEPT !.kind = "error"])
  /\ UNCHANGED <<options, fsRootExists, pc, warnings, rootNode, outFile,
                 matchVars>>

\* index.ts 101-103, 142, 162: neither a directory nor a file, return null
CallOther ==
  /\ pc = "build" /\ worklist # <<>>
  /\ ~skipped(calling.path)
  /\ calls' = [calls EXCEPT !.stat = @ \cup {calling.path}]
  /\ returnNow(calling.path, calling.depth, "resolved", Null,
               [NoFs EXCEPT !.kind = "other"])
  /\ UNCHANGED <<options, fsRootExists, pc, warnings, rootNode, outFile,
                 matchVars>>

\* index.ts 103-112: a directory at maxDepth, returned without its entries
CallDirAtMaxDepth ==
  /\ pc = "build" /\ worklist # <<>>
  /\ ~skipped(calling.path)
  /\ depthReached(calling.depth, options.maxDepth)
  /\ calls' = [calls EXCEPT !.stat = @ \cup {calling.path}]
  /\ returnNow(calling.path, calling.depth, "resolved",
               directoryNode(calling.path, <<>>),
               [NoFs EXCEPT !.kind = "dir"])
  /\ UNCHANGED <<options, fsRootExists, pc, warnings, rootNode, outFile,
                 matchVars>>

\* index.ts 103-121: a directory whose readdirSync throws
CallReaddirThrows ==
  /\ pc = "build" /\ worklist # <<>>
  /\ ~skipped(calling.path)
  /\ ~depthReached(calling.depth, options.maxDepth)
  /\ calls' = [calls EXCEPT !.stat = @ \cup {calling.path},
                            !.readdir = @ \cup {calling.path}]
  /\ returnNow(calling.path, calling.depth, "rejected", Null,
               [NoFs EXCEPT !.kind = "dir"])
  /\ UNCHANGED <<options, fsRootExists, pc, warnings, rootNode, outFile,
                 matchVars>>

\* index.ts 103-136: a directory is enumerated, buildFileTree is called for
\* every entry in order, and the call awaits Promise.all of the results
CallDir ==
  /\ pc = "build" /\ worklist # <<>>
  /\ ~skipped(calling.path)
  /\ ~depthReached(calling.depth, options.maxDepth)
  /\ \E entries \in EntryLists(MaxNodes - nodeCount) :
       /\ tasks' = (calling.path :>
                      Task(calling.depth, "awaiting", Null, entries)) @@ tasks
       /\ fs' = (calling.path :> [NoFs EXCEPT !.kind = "dir",
                                              !.listable = TRUE,
                                              !.entries = entries]) @@ fs
       /\ worklist' = childCalls(calling.path, calling.depth, entries)
                      \o Tail(worklist)
  /\ calls' = [calls EXCEPT !.stat = @ \cup {calling.path},
                            !.readdir = @ \cup {calling.path}]
  /\ UNCHANGED <<options, fsRootExists, pc, warnings, rootNode, outFile,
                 matchVars>>

\* index.ts 142-160: a regular file; its content is read when eligible, and
\* a failed read is caught and warned about
CallFile ==
  /\ pc = "build" /\ worklist # <<>>
  /\ ~skipped(calling.path)
  /\ \E bytes \in Sizes, readable \in BOOLEAN, text \in Contents :
       LET p == calling.path
           eligible == contentEligible(options.includeContent, bytes,
                                       options.contentSizeLimit)
           answer == [NoFs EXCEPT !.kind = "file", !.size = bytes,
                                  !.readable = readable, !.text = text]
       IN /\ readable \/ text = <<>>
          /\ returnNow(p, calling.depth, "resolved",
               IF eligible /\ readable
                 THEN fileNodeWithContent(p, bytes, text)
                 ELSE fileNode(p, bytes),
               answer)
          /\ calls' = [calls EXCEPT !.stat = @ \cup {p},
                         !.read = IF eligible THEN @ \cup {p} ELSE @]
          /\ warnings' = IF eligible /\ ~readable
                           THEN warnings \cup {p} ELSE warnings
  /\ UNCHANGED <<options, fsRootExists, pc, rootNode, outFile, matchVars>>

\* the indices in a sequence of arrivals
Range(f) == { f[k] : k \in DOMAIN f }

\* Promise.all stores in arrival order: the bug the index-keyed array avoids
promiseAllStoreInArrivalOrder(values, arrivals, i, v) ==
  [values EXCEPT ![Len(arrivals) + 1] = v]

\* Promise.all keeps each fulfilled value at the index of its promise
promiseAllStore(values, arrivals, i, v) == [values EXCEPT ![i] = v]

\* Promise.all: a settled child promise is delivered to the awaiting parent;
\* a fulfilled one has its value stored, a rejected one rejects Promise.all,
\* the await of index.ts 122 throws and the parent's promise is rejected
Deliver(p, i) ==
  /\ pc = "build" /\ worklist = <<>>
  /\ tasks[p].state = "awaiting"
  /\ i \in (1..Len(tasks[p].entries)) \ Range(tasks[p].arrivals)
  /\ LET child == tasks[Append(p, tasks[p].entries[i])]
     IN /\ child.state # "awaiting"
        /\ tasks' = [tasks EXCEPT ![p] =
             IF child.state = "rejected"
               THEN [@ EXCEPT !.state = "rejected"]
               ELSE [@ EXCEPT !.values = promiseAllStore(@, tasks[p].arrivals,
                                                         i, child.value),
                              !.arrivals = Append(@, i)]]
  /\ UNCHANGED <<options, fsRootExists, pc, worklist, calls, warnings,
                 rootNode, outFile, fs, matchVars>>

\* index.ts 138-141: Promise.all is fulfilled, the call resumes, filters the
\* nulls out and returns the directory node
Resume(p) ==
  /\ pc = "build" /\ worklist = <<>>
  /\ tasks[p].state = "awaiting"
  /\ Range(tasks[p].arrivals) = 1..Len(tasks[p].entries)
  /\ tasks' = [tasks EXCEPT ![p] =
       [@ EXCEPT !.state = "resolved",
                 !.value = directoryNode(p, nonNull(tasks[p].values))]]
  /\ UNCHANGED <<options, fsRootExists, pc, worklist, calls, warnings,
                 rootNode, outFile, fs, matchVars>>

\* index.ts 49: the awaited buildFileTree(root) is rejected, the call throws
BuildRejected ==
  /\ pc = "build" /\ worklist = <<>>
  /\ tasks[options.rootDir].state = "rejected"
  /\ pc' = "failed"
  /\ UNCHANGED <<options, fsRootExists, worklist, tasks, calls, warnings,
                 rootNode, outFile, fs, matchVars>>

\* index.ts 49-65: the root node arrives, is formatted and written
\* (writeFileSync on outputPath is taken to succeed)
FormatAndWrite ==
  /\ pc = "build" /\ worklist = <<>>
  /\ tasks[options.rootDir].state = "resolved"
  /\ rootNode' = tasks[options.rootDir].value
  /\ outFile' = [writes |-> outFile.writes + 1,
                 text |-> formatFileTree(rootNode', 0, TRUE)]
  /\ pc' = "done"
  /\ UNCHANGED <<options, fsRootExists, worklist, tasks, calls, warnings,
                 fs, matchVars>>

Next ==
  \/ RootNotFound
  \/ BeginBuild
  \/ CallSkipped
  \/ CallStatThrows
  \/ CallOther
  \/ CallDirAtMaxDepth
  \/ CallReaddirThrows
  \/ CallDir
  \/ CallFile
  \/ \E p \in DOMAIN tasks : \E i \in 1..MaxNodes : Deliver(p, i)
  \/ \E p \in DOMAIN tasks : Resume(p)
  \/ BuildRejected
  \/ FormatAndWrite

Spec == Init /\ [][Next]_vars

-----------------------------------------------------------------------------
(* The exclude matcher on its own: a pattern and a base name are drawn and *)
(* the callback of exclude.some is applied to them.                        *)

\* characters of patterns and of base names
PatternAlphabet == {"a", ".", "$", "*"}
NameAlphabet == {"a", ".", "$"}

InitMatch ==
  /\ mPattern \in StringsOver(PatternAlphabet, 1, MaxPatLen)
  /\ mName \in StringsOver(NameAlphabet, 1, MaxNameLen)
  /\ mResult = <<>>
  /\ options = CHOOSE o \in OptionSets : TRUE
  /\ fsRootExists = FALSE
  /\ pc = "match"
  /\ worklist = <<>>
  /\ tasks = <<>>
  /\ fs = <<>>
  /\ calls = [stat |-> {}, readdir |-> {}, read |-> {}]
  /\ warnings = {}
  /\ rootNode = Null
  /\ outFile = [writes |-> 0, text |-> <<>>]

\* exclude.some over the one-pattern list
ExcludeTest ==
  /\ pc = "match"
  /\ mResult = <<>>
  /\ mResult' = <<isExcluded(<<mPattern>>, mName)>>
  /\ UNCHANGED <<mPattern, mName, buildVars>>

NextMatch == ExcludeTest

SpecMatch == InitMatch /\ [][NextMatch]_vars

-----------------------------------------------------------------------------
(* The formatter on its own: a tree is drawn and formatFileTree is applied *)
(* to it as generateProjectMap applies it, at level 0.                     *)

\* file nodes: without content, with the empty text, with two lines
FormatFiles ==
  { [type |-> "file", name |-> <<"f">>, path |-> <<>>, size |-> 1] }
  \cup { [type |-> "file", name |-> <<"f">>, path |-> <<>>, size |-> 1,
          content |-> c] : c \in { <<>>, <<"x", NL, "y">> } }

FormatDir(children) ==
  [type |-> "directory", name |-> <<"d">>, path |-> <<>>, children |-> children]

RECURSIVE FormatTrees(_)
FormatTrees(depth) ==
  IF depth = 0 THEN FormatFiles \cup {FormatDir(<<>>)}
  ELSE LET below == FormatTrees(depth - 1)
       IN below \cup { FormatDir(c) : c \in StringsOver(below, 1, MaxChildren) }

InitFormat ==
  /\ rootNode \in FormatTrees(MaxTreeDepth)
  /\ outFile = [writes |-> 0, text |-> <<>>]
  /\ pc = "format"
  /\ options = CHOOSE o \in OptionSets : TRUE
  /\ fsRootExists = TRUE
  /\ worklist = <<>>
  /\ tasks = <<>>
  /\ fs = <<>>
  /\ calls = [stat |-> {}, readdir |-> {}, read |-> {}]
  /\ warnings = {}
  /\ mPattern = <<>> /\ mName = <<>> /\ mResult = <<>>

\* index.ts 60: const projectMapText = formatFileTree(rootNode)
FormatTree ==
  /\ pc = "format"
  /\ outFile' = [outFile EXCEPT !.text = formatFileTree(rootNode, 0, TRUE)]
  /\ pc' = "formatted"
  /\ UNCHANGED <<options, fsRootExists, worklist, tasks, calls, warnings,
                 rootNode, fs, matchVars>>

NextFormat == FormatTree

SpecFormat == InitFormat /\ [][NextFormat]_vars

-----------------------------------------------------------------------------
(* Vocabulary of the properties *)

\* the glob reading of a pattern: every '*' stands for any string, every
\* other character for itself, and the whole name is matched
RECURSIVE globMatches(_, _)
globMatches(pattern, name) ==
  IF pattern = <<>> THEN name = <<>>
  ELSE IF Head(pattern) = "*"
    THEN \E k \in 0..Len(name) :
           globMatches(Tail(pattern), SubSeq(name, k + 1, Len(name)))
  ELSE name # <<>> /\ Head(name) = Head(pattern)
       /\ globMatches(Tail(pattern), Tail(name))

globExcluded(exclude, name) ==
  \E i \in 1..Len(exclude) : globMatches(exclude[i], name)

\* the nodes of a tree, each with its depth below the node the tree hangs on
RECURSIVE nodesAt(_, _)
nodesAt(node, depth) ==
  IF node = Null THEN {}
  ELSE {<<node, depth>>}
       \cup (IF hasChildren(node)
               THEN UNION { nodesAt(node.children[i], depth + 1) :
                            i \in 1..Len(node.children) }
               ELSE {})

treeNodes(node) == { nd[1] : nd \in nodesAt(node, 0) }

\* the text as lines: every line of the formatter ends with a newline
linesOf(text) ==
  IF text = <<>> THEN <<>>
  ELSE LET pieces == split(text) IN SubSeq(pieces, 1, Len(pieces) - 1)

\* the filesystem path a node of the tree was built for
pathOfNode(node) ==
  options.rootDir \o (IF node.path = << <<".">> >> THEN <<>> ELSE node.path)

noFsCalls == calls = [stat |-> {}, readdir |-> {}, read |-> {}]

-----------------------------------------------------------------------------
(* C2 *)

\* C2: the exclude matcher agrees with the glob reading for every pattern
\* and base name: a pattern with '*' matches exactly the names obtained by
\* replacing each '*' with any string, a pattern without '*' only itself.
C2_MatcherAgreesWithGlob ==
  mResult # <<>> => (mResult[1] <=> globMatches(mPattern, mName))

\* what does hold: the matcher differs from the glob reading only on
\* patterns with a '*' and a '.' or '$'
C2_AgreesWithoutMetacharacters ==
  (mResult # <<>> /\ ~(includes(mPattern, "*")
                       /\ (includes(mPattern, ".") \/ includes(mPattern, "$"))))
    => (mResult[1] <=> globMatches(mPattern, mName))

-----------------------------------------------------------------------------
(* C5, C6 *)

C5Column(ancestorIsLast) ==
  IF ancestorIsLast THEN <<" ", " ", " ">> ELSE <<Vert, " ", " ">>

C5Connector(isLast) ==
  IF isLast THEN <<Corner, Dash, " ">> ELSE <<Tee, Dash, " ">>

\* the line of node and of every node below it, given the columns of the
\* ancestors of node at depth 1 .. level-1
RECURSIVE C5LinesOK(_, _, _, _)
C5LinesOK(node, level, isLast, columns) ==
  /\ linesOf(formatFileTree(node, level, isLast))[1] \o <<NL>>
       = (IF level = 0 THEN <<>> ELSE columns \o C5Connector(isLast))
         \o nodeLine(node, 0, TRUE)
  /\ hasChildren(node) =>
       \A i \in 1..Len(node.children) :
         C5LinesOK(node.children[i], level + 1, i = Len(node.children),
                   IF level = 0 THEN <<>> ELSE columns \o C5Column(isLast))

\* C5: the line of a node at depth d >= 1 is d-1 ancestor columns and a
\* connector; the connector is the last-sibling glyph exactly for a last
\* child; an ancestor column is the continuation glyph when that ancestor
\* is not a last child and three blanks when it is; the root has no prefix.
C5_PrefixFollowsAncestors ==
  pc = "formatted" => C5LinesOK(rootNode, 0, TRUE, <<>>)

\* the block of lines a node with content is to be followed by
C6Block(node, level) ==
  IF hasContent(node)
    THEN LET separator == contentIndentOf(level) \o repeat(<<Dash>>, 40)
             pieces == split(node.content)
         IN <<separator>>
            \o [i \in 1..Len(pieces) |-> contentIndentOf(level) \o pieces[i]]
            \o <<separator>>
    ELSE <<>>

RECURSIVE C6BlocksOK(_, _, _)
C6BlocksOK(node, level, isLast) ==
  LET lines == linesOf(formatFileTree(node, level, isLast))
      kids == IF hasChildren(node) THEN node.children ELSE <<>>
  IN /\ lines = <<lines[1]>> \o C6Block(node, level)
                \o linesOf(formatChildren(kids, 1, level))
     /\ \A i \in 1..Len(kids) : C6BlocksOK(kids[i], level + 1, i = Len(kids))

\* C6: a node with content, the empty text included, is followed at once
\* by a separator of 40 dashes at its content column, the lines of the
\* content in order at that column, and the same separator again; a node
\* without content is followed by no such block.
C6_ContentBlockFollowsNode ==
  pc = "formatted" => C6BlocksOK(rootNode, 0, TRUE)

\* what does hold of the content block: it is as C6 says for every content
\* but the empty text
C6_NonEmptyContentBlock ==
  (pc = "formatted"
     /\ \A n \in treeNodes(rootNode) : hasContent(n) => n.content # <<>>)
    => C6BlocksOK(rootNode, 0, TRUE)

\* what does hold of the prefix: it is as C5 says when no node that has
\* children is the last child of its parent
C5_PrefixWithoutLastAncestors ==
  (pc = "formatted"
     /\ \A n \in treeNodes(rootNode) :
          hasChildren(n) =>
            \A i \in 1..Len(n.children) :
              (hasChildren(n.children[i]) /\ Len(n.children[i].children) > 0)
                => i # Len(n.children))
    => C5LinesOK(rootNode, 0, TRUE, <<>>)

-----------------------------------------------------------------------------
(* C1, C10 *)

root == options.rootDir

\* C1: no tree buildFileTree returns holds a node whose base name matches
\* an exclude pattern; a directory with such a name is never enumerated,
\* and buildFileTree is called for nothing below it.
C1_NoExcludedNode ==
  /\ \A p \in DOMAIN tasks :
       \A n \in treeNodes(tasks[p].value) :
         ~globExcluded(options.exclude, n.name)
  /\ \A p \in calls.readdir : ~globExcluded(options.exclude, basename(p))
  /\ \A p \in DOMAIN tasks :
       \A k \in 1..(Len(p) - 1) : ~globExcluded(options.exclude, p[k])

\* what does hold: C1 for the names the matcher of the code matches
C1_NoNodeTheMatcherExcludes ==
  /\ \A p \in DOMAIN tasks :
       \A n \in treeNodes(tasks[p].value) :
         ~isExcluded(options.exclude, n.name)
  /\ \A p \in calls.readdir : ~isExcluded(options.exclude, basename(p))
  /\ \A p \in DOMAIN tasks :
       \A k \in 1..(Len(p) - 1) : ~isExcluded(options.exclude, p[k])

\* the root is skipped: nothing is queried, the call does not fail, and
\* what it writes is the empty text
rootSkippedOutcome ==
  /\ noFsCalls
  /\ pc # "failed"
  /\ root \in DOMAIN tasks => tasks[root].value = Null
  /\ pc = "done" => rootNode = Null /\ outFile = [writes |-> 1, text |-> <<>>]

\* C10: when the root exists and its base name matches an exclude pattern,
\* or showHidden is false and it starts with '.', buildFileTree returns no
\* node and queries nothing, the text is empty, and generateProjectMap
\* completes having written the empty file.
C10_RootPolicy ==
  (fsRootExists
     /\ (\/ globExcluded(options.exclude, basename(root))
         \/ (~options.showHidden /\ startsWith(basename(root), "."))))
    => rootSkippedOutcome

\* what does hold: C10 for the root names the matcher of the code matches
C10_RootPolicyOfTheMatcher ==
  (fsRootExists
     /\ (\/ isExcluded(options.exclude, basename(root))
         \/ (~options.showHidden /\ startsWith(basename(root), "."))))
    => rootSkippedOutcome

-----------------------------------------------------------------------------
(* C3 *)

\* C3: in every tree buildFileTree returns, a directory at depth maxDepth
\* has no children and was not enumerated, and no node is deeper than
\* maxDepth; with maxDepth unbounded, every directory is enumerated and
\* every entry that is not skipped has its node in the tree.
C3_MaxDepth ==
  /\ \A p \in DOMAIN tasks :
       \A nd \in nodesAt(tasks[p].value, tasks[p].depth) :
         options.maxDepth # Infinity =>
           /\ nd[2] <= options.maxDepth
           /\ (nd[1].type = "directory" /\ nd[2] = options.maxDepth)
                => /\ nd[1].children = <<>>
                   /\ pathOfNode(nd[1]) \notin calls.readdir
  /\ \A p \in calls.readdir :
       options.maxDepth # Infinity => Len(p) - 1 < options.maxDepth
  /\ (pc = "done" /\ options.maxDepth = Infinity) =>
       \A p \in DOMAIN fs :
         /\ fs[p].kind = "dir" =>
              /\ p \in calls.readdir
              /\ \A i \in 1..Len(fs[p].entries) :
                   Append(p, fs[p].entries[i]) \in DOMAIN fs
         /\ fs[p].kind \in {"dir", "file"} =>
              \E n \in treeNodes(rootNode) :
                pathOfNode(n) = p /\ n.name = basename(p)

\* a finished run with maxDepth 1 whose tree has a directory at depth 1
C3_Witness ==
  /\ pc = "done" /\ options.maxDepth = 1
  /\ \E nd \in nodesAt(rootNode, 0) : nd[2] = 1 /\ nd[1].type = "directory"

-----------------------------------------------------------------------------
(* C4 *)

\* C4: a file node carries content exactly when includeContent is set, the
\* file is at most contentSizeLimit*1024 bytes and the read succeeded; a
\* file whose read fails still has its node, with its size and without
\* content; a directory node carries neither content nor size.
C4_ContentIff ==
  /\ \A p \in DOMAIN tasks :
       fs[p].kind = "file" =>
         LET n == tasks[p].value
         IN /\ n # Null /\ n.type = "file" /\ n.name = basename(p)
            /\ hasSize(n) /\ n.size * 1024 >= fs[p].size
            /\ (n.size - 1) * 1024 < fs[p].size
            /\ hasContent(n) <=> /\ options.includeContent
                                 /\ fs[p].size <= options.contentSizeLimit * 1024
                                 /\ fs[p].readable
            /\ hasContent(n) => n.content = fs[p].text
  /\ \A p \in DOMAIN tasks :
       \A n \in treeNodes(tasks[p].value) :
         /\ n.type = "directory" => ~hasContent(n) /\ ~hasSize(n)
         /\ n.type = "file" => n = tasks[pathOfNode(n)].value

\* a finished run whose tree has a file that was eligible and could not be
\* read: its node is there, with its size and without content
C4_Witness ==
  /\ pc = "done"
  /\ \E n \in treeNodes(rootNode) :
       /\ n.type = "file" /\ hasSize(n) /\ ~hasContent(n)
       /\ pathOfNode(n) \in calls.read /\ pathOfNode(n) \in warnings

-----------------------------------------------------------------------------
(* C7, C8 *)

\* the root itself could not be queried or enumerated
rootUnreadable ==
  /\ root \in DOMAIN fs
  /\ \/ fs[root].kind = "error"
     \/ fs[root].kind = "dir" /\ root \in calls.readdir /\ ~fs[root].listable

\* C7: once the root exists (and is itself readable), no failure of the
\* metadata query, the enumeration or the content read of an entry below
\* it makes generateProjectMap fail.
C7_EntryFailuresAbsorbed ==
  (fsRootExists /\ ~rootUnreadable) => pc # "failed"

\* what does hold: a failed content read is absorbed
C7_ReadFailuresAbsorbed ==
  (pc = "failed" /\ fsRootExists) =>
    \E p \in DOMAIN fs :
      \/ fs[p].kind = "error"
      \/ fs[p].kind = "dir" /\ p \in calls.readdir /\ ~fs[p].listable

\* C8: when the root does not exist the call fails before buildFileTree is
\* called and before any fs query, and writes nothing; the output file is
\* written at most once, after the whole tree is built and formatted, with
\* the formatted text; a failed call has written nothing.
C8_AtomicWrite ==
  /\ ~fsRootExists =>
       /\ pc \in {"start", "failed"}
       /\ tasks = <<>> /\ worklist = <<>> /\ fs = <<>>
       /\ noFsCalls
       /\ outFile.writes = 0
  /\ outFile.writes <= 1
  /\ outFile.writes = 1 =>
       /\ pc = "done"
       /\ worklist = <<>>
       /\ \A p \in DOMAIN tasks : tasks[p].state = "resolved"
       /\ rootNode = tasks[root].value
       /\ outFile.text = formatFileTree(rootNode, 0, TRUE)
  /\ pc = "failed" => outFile = [writes |-> 0, text |-> <<>>]
  /\ pc = "done" => outFile.writes = 1

\* the call has failed on a root that does not exist
C8_Witness == pc = "failed" /\ ~fsRootExists

-----------------------------------------------------------------------------
(* C9 *)

\* the entries of directory p that buildFileTree returned a node for
keptEntries(p) ==
  SelectSeq(fs[p].entries,
            LAMBDA e : fs[Append(p, e)].kind \in {"dir", "file"})

\* C9: whatever the order in which the calls for its entries are delivered,
\* the children of an enumerated directory are the nodes of its entries
\* that were not skipped and are a file or a directory, in enumeration
\* order, each once.
C9_ChildrenInEnumerationOrder ==
  \A p \in DOMAIN tasks :
    (tasks[p].state = "resolved" /\ fs[p].listable) =>
      LET children == tasks[p].value.children
          kept == keptEntries(p)
      IN /\ Len(children) = Len(kept)
         /\ \A i \in 1..Len(kept) :
              /\ children[i].name = kept[i]
              /\ children[i] = tasks[Append(p, kept[i])].value

\* a directory has returned two children, the second delivered first
C9_Witness ==
  \E p \in DOMAIN tasks :
    /\ tasks[p].state = "resolved" /\ fs[p].listable
    /\ Len(tasks[p].value.children) = 2
    /\ tasks[p].arrivals = <<2, 1>>

====
